---- MODULE Spec2Model ----
(***************************************************************************)
(* Episode workflow of nonebot-plugin-trans-progress: the "finish" chat    *)
(* command (cmd_finish) and the administrative episode edit                *)
(* (update_episode), each split at its await points (load, save, send) so  *)
(* that concurrent requests interleave as they do on the event loop        *)
(* (Spec), and the deadline scans: the daily job check_deadlines and the   *)
(* manual check_and_send_broadcast (ScanSpec), the removal of a member     *)
(* followed by finish commands (MemberSpec), and the web panel's project,  *)
(* episode and member handlers over the store (CrudSpec).                  *)
(***************************************************************************)
EXTENDS Integers, Sequences, FiniteSets, TLC

\* ------------------------------------------------------------------ bounds
MaxOps == 2
MaxRows == 2
MaxNow == 1
TicksPerDay == 3
ScanDays == 1

\* --------------------------------------------------------------- constants
None == "None"
NoDdl == {}

NotStarted == 0
Translating == 1
Proofing == 2
Typesetting == 3
Supervising == 4
Done == 5
FinishTerminal == 4
DefaultDdlDays == 14

ProjectGroup == "g1"
Titles == {"ep1", "ep2"}
Statuses == NotStarted..Done
Procs == 1..MaxOps

\* User rows: unique per (qq_id, group_id); the same person in two groups is two rows.
UserRows ==
  { [id |-> "r1", qq_id |-> "u1", group_id |-> "g1", name |-> "Alice"],
    [id |-> "r2", qq_id |-> "u2", group_id |-> "g1", name |-> "Bob"],
    [id |-> "r3", qq_id |-> "u1", group_id |-> "g2", name |-> "Alice"] }

VARIABLES users, project, episodes, h, now, version, hist,
          settings, up, pending, runs, outbox,
          projects, reqs, seq

scanVars == <<settings, up, pending, runs, outbox>>
crudVars == <<projects, reqs, seq>>
vars == <<users, project, episodes, h, now, version, hist, scanVars, crudVars>>

\* ----------------------------------------------------------------- helpers
DateOf(t) == t \div TicksPerDay

\* utils.get_default_ddl: now + 14 days
GetDefaultDdl(t) == {t + DefaultDdlDays * TicksPerDay}

\* web.get_db_user
GetDbUser(qq, gid) ==
  IF qq = None \/ qq = "" THEN None
  ELSE LET m == {u \in users : u.qq_id = qq /\ u.group_id = gid}
       IN IF m = {} THEN None ELSE (CHOOSE u \in m : TRUE).id

Row(id) == CHOOSE u \in users : u.id = id
QqOf(id) == Row(id).qq_id
NameOf(id) == Row(id).name

\* web.ensure_aware: a naive datetime is read as UTC, an aware one keeps its instant.
EnsureAware(d) ==
  IF d = NoDdl THEN NoDdl
  ELSE LET x == CHOOSE y \in d : TRUE
       IN IF x.aware THEN {x.wall - x.off} ELSE {x.wall}

Naive(w) == {[wall |-> w, off |-> 0, aware |-> FALSE]}
Aware(w, o) == {[wall |-> w, off |-> o, aware |-> TRUE]}

\* ------------------------------------------------------------------ records
EmptyEpisode ==
  [project |-> None, title |-> None, status |-> NotStarted,
   translator |-> None, proofreader |-> None, typesetter |-> None, supervisor |-> None,
   ddl_trans |-> NoDdl, ddl_proof |-> NoDdl, ddl_type |-> NoDdl, ddl_supervision |-> NoDdl]

EmptyForm ==
  [title |-> None, status |-> NotStarted,
   translator_qq |-> None, proofreader_qq |-> None, typesetter_qq |-> None, supervisor_qq |-> None,
   ddl_trans |-> NoDdl, ddl_proof |-> NoDdl, ddl_type |-> NoDdl, ddl_supervision |-> NoDdl]

NoActor == [qq |-> None, role |-> "member", group |-> ProjectGroup]

NoMsg ==
  [group |-> None, kind |-> "none", lines |-> <<>>, ddl |-> {}, at |-> {}, ats |-> <<>>,
   note |-> "none"]

Idle ==
  [pc |-> "idle", kind |-> "none", ep |-> 0, title |-> None,
   actor |-> NoActor, form |-> EmptyForm,
   snap |-> EmptyEpisode, new |-> EmptyEpisode, at |-> 0,
   result |-> "pending", is_assignee |-> FALSE,
   changes |-> <<>>, mentions |-> {}, adds |-> <<>>,
   readVer |-> 0, writeVer |-> 0, before |-> EmptyEpisode, repeats |-> FALSE,
   sent |-> "none", msg |-> NoMsg]

\* ------------------------------------------------- cmd_finish (finish command)
\* The assignee slot of the stage the command recognises (statuses 1, 2, 3).
StageUser(e) ==
  CASE e.status = Translating -> e.translator
    [] e.status = Proofing -> e.proofreader
    [] e.status = Typesetting -> e.typesetter
    [] OTHER -> None

IsLeader(proj, qq) == proj.leader # None /\ QqOf(proj.leader) = qq
IsGroupAdmin(actor) == actor.role \in {"owner", "admin"}
\* A check that lets anyone act for a stage nobody is assigned to.
IsAssigneeOrUnassigned(e, qq) == StageUser(e) = None \/ QqOf(StageUser(e)) = qq

IsAssignee(e, qq) == StageUser(e) # None /\ QqOf(StageUser(e)) = qq

\* Permission check and early returns of the command.
FinishCheck(e, proj, actor) ==
  IF e.status \in {Translating, Proofing, Typesetting}
  THEN IF IsAssignee(e, actor.qq) \/ IsLeader(proj, actor.qq) \/ IsGroupAdmin(actor)
       THEN "ok" ELSE "PermissionDenied"
  ELSE IF e.status = FinishTerminal THEN "AlreadyTerminal"
  ELSE "StageUnassigned"

\* State transition of the command, evaluated at time t.
Advance(e, t) ==
  CASE e.status = Translating ->
         [e EXCEPT !.status = Proofing,
                   !.ddl_proof = IF e.ddl_proof = NoDdl THEN GetDefaultDdl(t) ELSE @]
    [] e.status = Proofing ->
         [e EXCEPT !.status = Typesetting,
                   !.ddl_type = IF e.ddl_type = NoDdl THEN GetDefaultDdl(t) ELSE @]
    [] e.status = Typesetting -> [e EXCEPT !.status = FinishTerminal]
    [] OTHER -> e

StatusText == [s \in {Translating, Proofing, Typesetting} |->
                 CASE s = Translating -> "translate" [] s = Proofing -> "proofread" [] OTHER -> "typeset"]

NextRole(s) == CASE s = Proofing -> "proofread" [] s = Typesetting -> "typeset" [] OTHER -> "publish"

\* The reply announcing the stage change; owner is what the group member list yields.
FinishReply(r, proj, owner) ==
  LET cur == r.snap.status
      e == r.new
      line == <<[label |-> StatusText[cur], old |-> cur, new |-> NextRole(e.status),
                 proxy |-> ~r.is_assignee]>>
  IN IF e.status = FinishTerminal
     THEN LET target_qq == IF proj.leader # None THEN QqOf(proj.leader) ELSE owner
          IN [group |-> r.actor.group, kind |-> "advance", lines |-> line, ddl |-> {},
              at |-> IF target_qq # None THEN {target_qq} ELSE {},
              ats |-> IF target_qq # None THEN <<target_qq>> ELSE <<>>,
              note |-> IF target_qq # None THEN "leader_or_owner_publish" ELSE "admins_publish"]
     ELSE LET next_user == IF e.status = Proofing THEN e.proofreader ELSE e.typesetter
              next_ddl == IF e.status = Proofing THEN e.ddl_proof ELSE e.ddl_type
          IN [group |-> r.actor.group, kind |-> "advance", lines |-> line,
              ddl |-> {DateOf(x) : x \in next_ddl},
              at |-> IF next_user # None THEN {QqOf(next_user)} ELSE {},
              ats |-> IF next_user # None THEN <<QqOf(next_user)>> ELSE <<>>,
              note |-> IF next_user # None THEN "take_over" ELSE "next_unassigned"]

\* utils.send_group_message: best effort, a failed delivery is logged and not raised.
SendGroupMessage(delivered) == IF delivered THEN "delivered" ELSE "failed"

\* What the log of requests tells: whether an edit was ever submitted, and the last
\* write to the episode table (by which handler, of which form, to which row).
NoHist == [edited |-> FALSE, kind |-> "none", ep |-> 0, form |-> EmptyForm]

\* Requests are numbered in the order they arrive.
CanStart(p) == h[p].pc = "idle" /\ \A q \in Procs : q < p => h[q].pc # "idle"

\* cmd_finish whose permission failure replies without ending the handler.
FinishLoadNoReturn(p, actor, ep_title) ==
  /\ CanStart(p)
  /\ LET found == {i \in DOMAIN episodes :
                     episodes[i].project = project.name /\ episodes[i].title = ep_title}
         base == [Idle EXCEPT !.kind = "finish", !.title = ep_title, !.readVer = version]
     IN IF found = {}
        THEN h' = [h EXCEPT ![p] = [base EXCEPT !.pc = "done", !.result = "NotFound"]]
        ELSE LET i == CHOOSE j \in found : TRUE
                 e == episodes[i]
                 res == FinishCheck(e, project, actor)
                 goes == res \in {"ok", "PermissionDenied"}
             IN h' = [h EXCEPT ![p] =
                        [base EXCEPT !.actor = actor, !.at = now,
                                     !.ep = i, !.snap = e, !.result = res,
                                     !.is_assignee = IsAssignee(e, actor.qq),
                                     !.new = IF goes THEN Advance(e, now) ELSE e,
                                     !.pc = IF goes THEN "computed" ELSE "done"]]
  /\ UNCHANGED <<crudVars, users, project, episodes, now, version, hist, scanVars>>

\* Lookup of the episode, permission check and transition up to `await episode.save()`.
FinishLoad(p, actor, ep_title) ==
  /\ CanStart(p)
  /\ LET found == {i \in DOMAIN episodes :
                     episodes[i].project = project.name /\ episodes[i].title = ep_title}
         base == [Idle EXCEPT !.kind = "finish", !.title = ep_title, !.readVer = version]
     IN IF found = {}
        THEN h' = [h EXCEPT ![p] = [base EXCEPT !.pc = "done", !.result = "NotFound"]]
        ELSE LET i == CHOOSE j \in found : TRUE
                 e == episodes[i]
                 res == FinishCheck(e, project, actor)
             IN h' = [h EXCEPT ![p] =
                        [base EXCEPT !.actor = actor, !.at = now,
                                     !.ep = i, !.snap = e, !.result = res,
                                     !.is_assignee = IsAssignee(e, actor.qq),
                                     !.new = IF res = "ok" THEN Advance(e, now) ELSE e,
                                     !.pc = IF res = "ok" THEN "computed" ELSE "done"]]
  /\ UNCHANGED <<crudVars, users, project, episodes, now, version, hist, scanVars>>

\* `await episode.save()`: writes every column of the row.
FinishSave(p) ==
  /\ h[p].kind = "finish" /\ h[p].pc = "computed"
  /\ episodes' = [episodes EXCEPT ![h[p].ep] = h[p].new]
  /\ version' = version + 1
  /\ h' = [h EXCEPT ![p].pc = "saved", ![p].writeVer = version + 1,
                    ![p].before = episodes[h[p].ep]]
  /\ hist' = [hist EXCEPT !.kind = "finish", !.ep = h[p].ep, !.form = EmptyForm]
  /\ UNCHANGED <<crudVars, users, project, now, scanVars>>

\* cmd_finish that restores the row and fails when the delivery fails.
FinishSendRollback(p, delivered, owner) ==
  /\ h[p].kind = "finish" /\ h[p].pc = "saved"
  /\ h' = [h EXCEPT ![p].pc = "done",
                    ![p].msg = FinishReply(h[p], project, owner),
                    ![p].sent = SendGroupMessage(delivered),
                    ![p].result = IF delivered THEN @ ELSE "DeliveryFailure"]
  /\ episodes' = IF delivered THEN episodes
                 ELSE [episodes EXCEPT ![h[p].ep] = h[p].before]
  /\ UNCHANGED <<crudVars, users, project, now, version, hist, scanVars>>

\* Reply construction and `await send_group_message(...)`.
FinishSend(p, delivered, owner) ==
  /\ h[p].kind = "finish" /\ h[p].pc = "saved"
  /\ h' = [h EXCEPT ![p].pc = "done",
                    ![p].msg = FinishReply(h[p], project, owner),
                    ![p].sent = SendGroupMessage(delivered)]
  /\ UNCHANGED <<crudVars, users, project, episodes, now, version, hist, scanVars>>

\* ------------------------------------------- update_episode (PUT /episode/{id})
StatusMap == [s \in Statuses |->
                CASE s = NotStarted -> "not_started" [] s = Translating -> "translate"
                  [] s = Proofing -> "proofread" [] s = Typesetting -> "typeset"
                  [] s = Supervising -> "supervise" [] OTHER -> "done"]

StatusMapGet(s) == IF s \in DOMAIN StatusMap THEN StatusMap[s] ELSE "other"

\* get_settings_list: the episodes the settings view lists as the tasks of a group
\* (status 1, 2, 3 or 4, project of a group that has synced members).
TaskListed(e, proj) ==
  /\ e.status \in {Translating, Proofing, Typesetting, Supervising}
  /\ proj.group_id \in {u.group_id : u \in users}

FmtDate(d) == {DateOf(x) : x \in d}
FmtUser(u) == IF u = None THEN "unassigned" ELSE NameOf(u)

\* The assignee of the stage a status names, with 4 as the supervision stage.
StageAssignee(e) ==
  CASE e.status = Translating -> e.translator
    [] e.status = Proofing -> e.proofreader
    [] e.status = Typesetting -> e.typesetter
    [] e.status = Supervising -> e.supervisor
    [] OTHER -> None

\* The deadline of the stage a status names (the settings view's current_ddl).
DdlOfStage(e, s) ==
  CASE s = Translating -> e.ddl_trans
    [] s = Proofing -> e.ddl_proof
    [] s = Typesetting -> e.ddl_type
    [] s = Supervising -> e.ddl_supervision
    [] OTHER -> NoDdl

Range(q) == {q[i] : i \in DOMAIN q}

\* mentions_qq kept as a list: every add call appends.
ListAppend(q, x) == Append(q, x)

\* mentions_qq.add(x) on a set, the set written in insertion order.
SetAdd(q, x) == IF x \in Range(q) THEN q ELSE Append(q, x)

\* The set after the add calls of one request, in call order.
RECURSIVE AddAll(_, _)
AddAll(q, xs) == IF xs = <<>> THEN q ELSE AddAll(SetAdd(q, Head(xs)), Tail(xs))

\* check_role_change comparing the stored deadline with the submitted one as sent:
\* a submitted deadline never equals a stored one.
CheckRoleChangeRawDdl(label, old_u, new_u, old_ddl, new_ddl) ==
  LET userChanged == old_u # new_u
      ddlChanged == old_ddl # new_ddl \/ new_ddl # NoDdl
      target == IF new_u # None THEN new_u ELSE old_u
  IN [changes |->
        (IF userChanged
         THEN <<[label |-> label, old |-> FmtUser(old_u), new |-> FmtUser(new_u)]>>
         ELSE <<>>) \o
        (IF ddlChanged
         THEN <<[label |-> label \o "DDL", old |-> FmtDate(old_ddl), new |-> FmtDate(new_ddl)]>>
         ELSE <<>>),
      mentions |->
        (IF userChanged /\ new_u # None THEN {QqOf(new_u)} ELSE {}) \cup
        (IF ddlChanged /\ target # None THEN {QqOf(target)} ELSE {}),
      adds |->
        (IF userChanged /\ new_u # None THEN <<QqOf(new_u)>> ELSE <<>>) \o
        (IF ddlChanged /\ target # None THEN <<QqOf(target)>> ELSE <<>>)]

\* check_role_change that looks at the deadline only when the assignee is unchanged.
CheckRoleChangeElif(label, old_u, new_u, old_ddl, new_ddl) ==
  LET userChanged == old_u # new_u
      ddlChanged == ~userChanged /\ old_ddl # new_ddl
      target == IF new_u # None THEN new_u ELSE old_u
  IN [changes |->
        (IF userChanged
         THEN <<[label |-> label, old |-> FmtUser(old_u), new |-> FmtUser(new_u)]>>
         ELSE <<>>) \o
        (IF ddlChanged
         THEN <<[label |-> label \o "DDL", old |-> FmtDate(old_ddl), new |-> FmtDate(new_ddl)]>>
         ELSE <<>>),
      mentions |->
        (IF userChanged /\ new_u # None THEN {QqOf(new_u)} ELSE {}) \cup
        (IF ddlChanged /\ target # None THEN {QqOf(target)} ELSE {}),
      adds |->
        (IF userChanged /\ new_u # None THEN <<QqOf(new_u)>> ELSE <<>>) \o
        (IF ddlChanged /\ target # None THEN <<QqOf(target)>> ELSE <<>>)]

\* check_role_change: assignee line, then deadline line, each with its mention.
CheckRoleChange(label, old_u, new_u, old_ddl, new_ddl) ==
  LET userChanged == old_u # new_u
      ddlChanged == old_ddl # new_ddl
      target == IF new_u # None THEN new_u ELSE old_u
  IN [changes |->
        (IF userChanged
         THEN <<[label |-> label, old |-> FmtUser(old_u), new |-> FmtUser(new_u)]>>
         ELSE <<>>) \o
        (IF ddlChanged
         THEN <<[label |-> label \o "DDL", old |-> FmtDate(old_ddl), new |-> FmtDate(new_ddl)]>>
         ELSE <<>>),
      mentions |->
        (IF userChanged /\ new_u # None THEN {QqOf(new_u)} ELSE {}) \cup
        (IF ddlChanged /\ target # None THEN {QqOf(target)} ELSE {}),
      adds |->
        (IF userChanged /\ new_u # None THEN <<QqOf(new_u)>> ELSE <<>>) \o
        (IF ddlChanged /\ target # None THEN <<QqOf(target)>> ELSE <<>>)]

\* The row update_episode writes: an unconditional overwrite of every tracked field.
ApplyForm(e, f, gid) ==
  [e EXCEPT !.title = f.title, !.status = f.status,
            !.translator = GetDbUser(f.translator_qq, gid),
            !.proofreader = GetDbUser(f.proofreader_qq, gid),
            !.typesetter = GetDbUser(f.typesetter_qq, gid),
            !.supervisor = GetDbUser(f.supervisor_qq, gid),
            !.ddl_trans = EnsureAware(f.ddl_trans),
            !.ddl_proof = EnsureAware(f.ddl_proof),
            !.ddl_type = EnsureAware(f.ddl_type),
            !.ddl_supervision = EnsureAware(f.ddl_supervision)]

\* The change list and the set of mentioned qq ids, in the order the code appends them.
UpdateDiff(e, f, gid) ==
  LET n == ApplyForm(e, f, gid)
      titleCh == IF e.title # f.title
                 THEN <<[label |-> "title", old |-> e.title, new |-> f.title]>> ELSE <<>>
      statusCh == IF e.status # f.status
                  THEN <<[label |-> "status", old |-> StatusMapGet(e.status),
                          new |-> StatusMapGet(f.status)]>>
                  ELSE <<>>
      stageUser == StageAssignee(n)
      statusMent == IF e.status # f.status /\ stageUser # None THEN {QqOf(stageUser)} ELSE {}
      statusAdd == IF e.status # f.status /\ stageUser # None THEN <<QqOf(stageUser)>> ELSE <<>>
      r1 == CheckRoleChange("translate", e.translator, n.translator, e.ddl_trans, n.ddl_trans)
      r2 == CheckRoleChange("proofread", e.proofreader, n.proofreader, e.ddl_proof, n.ddl_proof)
      r3 == CheckRoleChange("typeset", e.typesetter, n.typesetter, e.ddl_type, n.ddl_type)
      r4 == CheckRoleChange("supervise", e.supervisor, n.supervisor,
                            e.ddl_supervision, n.ddl_supervision)
  IN [changes |-> titleCh \o statusCh \o r1.changes \o r2.changes \o r3.changes \o r4.changes,
      mentions |-> statusMent \cup r1.mentions \cup r2.mentions \cup r3.mentions \cup r4.mentions,
      adds |-> statusAdd \o r1.adds \o r2.adds \o r3.adds \o r4.adds]

\* Load of the episode with its project, the user lookups, the diff and the field
\* assignments, up to `await ep.save()`.
UpdateLoad(p, id, form) ==
  /\ CanStart(p)
  /\ LET base == [Idle EXCEPT !.kind = "update", !.form = form, !.at = now,
                              !.readVer = version]
     IN IF id \notin DOMAIN episodes
        THEN h' = [h EXCEPT ![p] = [base EXCEPT !.pc = "done", !.result = "NotFound"]]
        ELSE LET e == episodes[id]
                 gid == project.group_id
                 d == UpdateDiff(e, form, gid)
             IN h' = [h EXCEPT ![p] =
                        [base EXCEPT !.pc = "computed", !.ep = id, !.title = e.title,
                                     !.snap = e, !.new = ApplyForm(e, form, gid),
                                     !.result = "ok",
                                     !.changes = d.changes, !.mentions = d.mentions,
                                     !.adds = d.adds,
                                     !.repeats = hist.kind = "update" /\ hist.ep = id
                                                   /\ hist.form = form]]
  /\ hist' = [hist EXCEPT !.edited = TRUE]
  /\ UNCHANGED <<crudVars, users, project, episodes, now, version, scanVars>>

\* update_episode that notifies whether or not the change list is empty.
UpdateSaveAlwaysNotify(p) ==
  /\ h[p].kind = "update" /\ h[p].pc = "computed"
  /\ episodes' = [episodes EXCEPT ![h[p].ep] = h[p].new]
  /\ version' = version + 1
  /\ h' = [h EXCEPT ![p].pc = "saved",
                    ![p].writeVer = version + 1,
                    ![p].before = episodes[h[p].ep]]
  /\ hist' = [hist EXCEPT !.kind = "update", !.ep = h[p].ep, !.form = h[p].form]
  /\ UNCHANGED <<crudVars, users, project, now, scanVars>>

\* `await ep.save()`; with an empty change list the handler returns right after it.
UpdateSave(p) ==
  /\ h[p].kind = "update" /\ h[p].pc = "computed"
  /\ episodes' = [episodes EXCEPT ![h[p].ep] = h[p].new]
  /\ version' = version + 1
  /\ h' = [h EXCEPT ![p].pc = IF h[p].changes # <<>> THEN "saved" ELSE "done",
                    ![p].writeVer = version + 1,
                    ![p].before = episodes[h[p].ep]]
  /\ hist' = [hist EXCEPT !.kind = "update", !.ep = h[p].ep, !.form = h[p].form]
  /\ UNCHANGED <<crudVars, users, project, now, scanVars>>

\* The change notification and `await send_group_message(...)`.
UpdateSend(p, delivered) ==
  /\ h[p].kind = "update" /\ h[p].pc = "saved"
  /\ h' = [h EXCEPT ![p].pc = "done",
                    ![p].msg = [group |-> project.group_id, kind |-> "edit",
                                lines |-> h[p].changes, ddl |-> {},
                                at |-> h[p].mentions,
                                ats |-> AddAll(<<>>, h[p].adds),
                                note |-> IF h[p].mentions # {} THEN "confirm" ELSE "none"],
                    ![p].sent = SendGroupMessage(delivered)]
  /\ UNCHANGED <<crudVars, users, project, episodes, now, version, hist, scanVars>>

\* The wall clock.
Tick ==
  /\ now < MaxNow
  /\ now' = now + 1
  /\ UNCHANGED <<crudVars, users, project, episodes, h, version, hist, scanVars>>

\* ------------------------------------------------------------------ inputs
\* The episode as GET /projects shows it to the web form.
FormOf(e) ==
  [title |-> e.title, status |-> e.status,
   translator_qq |-> IF e.translator = None THEN None ELSE QqOf(e.translator),
   proofreader_qq |-> IF e.proofreader = None THEN None ELSE QqOf(e.proofreader),
   typesetter_qq |-> IF e.typesetter = None THEN None ELSE QqOf(e.typesetter),
   supervisor_qq |-> IF e.supervisor = None THEN None ELSE QqOf(e.supervisor),
   ddl_trans |-> {[wall |-> t, off |-> 0, aware |-> TRUE] : t \in e.ddl_trans},
   ddl_proof |-> {[wall |-> t, off |-> 0, aware |-> TRUE] : t \in e.ddl_proof},
   ddl_type |-> {[wall |-> t, off |-> 0, aware |-> TRUE] : t \in e.ddl_type},
   ddl_supervision |-> {[wall |-> t, off |-> 0, aware |-> TRUE] : t \in e.ddl_supervision}]

\* Forms an administrator submits: the shown episode with one field edited, or a
\* form of the edit that was saved last.
EditForms(e) ==
  LET f == FormOf(e)
  IN {f}
     \cup {[f EXCEPT !.title = "ep2"]}
     \cup {[f EXCEPT !.status = s] : s \in {NotStarted, Typesetting, Supervising, Done}}
     \cup {[f EXCEPT !.translator_qq = None]}
     \cup {[f EXCEPT !.supervisor_qq = "u1", !.status = Supervising]}
     \cup {[f EXCEPT !.ddl_proof = Naive(3 * TicksPerDay)]}
     \cup {[f EXCEPT !.ddl_type = Aware(4 * TicksPerDay + 1, 1)]}
     \cup {[f EXCEPT !.ddl_trans = Naive(TicksPerDay + 1)]}
     \cup {[f EXCEPT !.translator_qq = "u2", !.ddl_trans = Naive(2 * TicksPerDay),
                     !.typesetter_qq = "u2"]}
     \cup {hist.form : x \in {y \in {hist.kind} : y = "update"}}

Actors ==
  { [qq |-> "u1", role |-> "member", group |-> "g1"],
    [qq |-> "u2", role |-> "member", group |-> "g1"],
    [qq |-> "u3", role |-> "member", group |-> "g1"],
    [qq |-> "u3", role |-> "admin", group |-> "g1"],
    [qq |-> "u3", role |-> "owner", group |-> "g1"] }

CreateForms ==
  [title : {"ep1"}, translator_qq : {"u1"}, proofreader_qq : {"u2"},
   typesetter_qq : {"u1"}, supervisor_qq : {None},
   ddl_trans : {Naive(TicksPerDay)}, ddl_proof : {NoDdl, Naive(2 * TicksPerDay)},
   ddl_type : {NoDdl}, ddl_supervision : {NoDdl}]

\* add_episode: the row Episode.create stores for a project.
AddEpisode(proj, cf) ==
  [project |-> proj.name, title |-> cf.title, status |-> Translating,
   translator |-> GetDbUser(cf.translator_qq, proj.group_id),
   proofreader |-> GetDbUser(cf.proofreader_qq, proj.group_id),
   typesetter |-> GetDbUser(cf.typesetter_qq, proj.group_id),
   supervisor |-> GetDbUser(cf.supervisor_qq, proj.group_id),
   ddl_trans |-> EnsureAware(cf.ddl_trans), ddl_proof |-> EnsureAware(cf.ddl_proof),
   ddl_type |-> EnsureAware(cf.ddl_type),
   ddl_supervision |-> EnsureAware(cf.ddl_supervision)]

\* ------------------------------------------------------------ deadline scans
\* Minutes of the day are the ticks of the clock; CronMinute is the tick that is 10:00.
CronMinute == 1
DefaultBroadcastTime == CronMinute

Groups == {"g1", "g2"}
ProjectRows == {[name |-> "P", group_id |-> "g1"], [name |-> "Q", group_id |-> "g2"]}

\* status__in=[1, 2, 3] of both scans
ScanStatuses == {Translating, Proofing, Typesetting}

MinuteOf(t) == t % TicksPerDay
ScanEnd == (ScanDays + 1) * TicksPerDay - 1

\* ep.project.group_id
GroupOf(e) == (CHOOSE pr \in ProjectRows : pr.name = e.project).group_id

\* The episodes in the order the queries return them.
EpSeq == [i \in 1..Cardinality(DOMAIN episodes) |-> i]

\* The stage deadline, with the translation deadline taken when it is unset.
StageDdlFallback(e) ==
  IF e.status \in ScanStatuses
  THEN IF DdlOfStage(e, e.status) = NoDdl THEN e.ddl_trans ELSE DdlOfStage(e, e.status)
  ELSE NoDdl

\* The deadline of the stage the scans look at (statuses 1, 2, 3).
StageDdl(e) == IF e.status \in ScanStatuses THEN DdlOfStage(e, e.status) ELSE NoDdl

\* target_user of a scan line: the qq id to mention, or None for the unassigned text.
Mention(e) == IF StageUser(e) # None THEN QqOf(StageUser(e)) ELSE None

\* GroupSetting of a group as the settings view reads it: enabled at 10:00 when absent.
SettingOf(g) ==
  LET m == {x \in settings : x.group_id = g}
  IN IF m = {}
     THEN [enable_broadcast |-> TRUE, broadcast_time |-> DefaultBroadcastTime]
     ELSE LET x == CHOOSE y \in m : TRUE
          IN [enable_broadcast |-> x.enable_broadcast, broadcast_time |-> x.broadcast_time]

\* scheduler.check_deadlines: overdue means the deadline instant is before now.
IsOverdue(e, t) == e.status \in ScanStatuses /\ \E x \in StageDdl(e) : x < t

AlertLine(i) ==
  [ep |-> i, urgency |-> "overdue", days |-> {}, date |-> FmtDate(StageDdl(episodes[i])),
   stage |-> StatusText[episodes[i].status], at |-> Mention(episodes[i])]

\* The messages check_deadlines composes at time t: one per key of alerts, in the
\* order the keys were inserted, each with the lines of that group.
CheckDeadlines(t) ==
  LET ov == SelectSeq(EpSeq, LAMBDA i : IsOverdue(episodes[i], t))
      gs == AddAll(<<>>, [k \in 1..Len(ov) |-> GroupOf(episodes[ov[k]])])
  IN [k \in 1..Len(gs) |->
        LET mine == SelectSeq(ov, LAMBDA i : GroupOf(episodes[i]) = gs[k])
        IN [group |-> gs[k], kind |-> "scheduled", note |-> "list", at |-> t,
            items |-> [j \in 1..Len(mine) |-> AlertLine(mine[j])]]]

\* broadcast.check_and_send_broadcast: urgency from the two calendar dates.
BroadcastPrefix(e, t) ==
  LET ddl_date == DateOf(CHOOSE x \in StageDdl(e) : TRUE)
      today_date == DateOf(t)
  IN IF ddl_date < today_date THEN [urgency |-> "overdue", days |-> {today_date - ddl_date}]
     ELSE IF ddl_date = today_date THEN [urgency |-> "due_today", days |-> {}]
     ELSE [urgency |-> "in_progress", days |-> {}]

BroadcastLine(i, t) ==
  LET e == episodes[i]
      pre == BroadcastPrefix(e, t)
  IN [ep |-> i, urgency |-> pre.urgency, days |-> pre.days, date |-> FmtDate(StageDdl(e)),
      stage |-> StatusText[e.status], at |-> Mention(e)]

\* check_and_send_broadcast that stays silent when it has nothing to list.
CheckAndSendBroadcastQuiet(group_id, is_manual, t) ==
  LET active == SelectSeq(EpSeq, LAMBDA i : episodes[i].status \in ScanStatuses
                                             /\ GroupOf(episodes[i]) = group_id)
      listed == SelectSeq(active, LAMBDA i :
                  /\ StageDdl(episodes[i]) # NoDdl
                  /\ (BroadcastPrefix(episodes[i], t).urgency # "in_progress" \/ is_manual))
      m == [group |-> group_id, kind |-> IF is_manual THEN "manual" ELSE "scheduled",
            note |-> "list", at |-> t, items |-> <<>>]
  IN IF active = <<>> THEN <<>>
     ELSE IF listed # <<>>
     THEN <<[m EXCEPT !.items = [j \in 1..Len(listed) |-> BroadcastLine(listed[j], t)]]>>
     ELSE <<>>

\* The messages check_and_send_broadcast sends for one group at time t.
CheckAndSendBroadcast(group_id, is_manual, t) ==
  LET active == SelectSeq(EpSeq, LAMBDA i : episodes[i].status \in ScanStatuses
                                             /\ GroupOf(episodes[i]) = group_id)
      listed == SelectSeq(active, LAMBDA i :
                  /\ StageDdl(episodes[i]) # NoDdl
                  /\ (BroadcastPrefix(episodes[i], t).urgency # "in_progress" \/ is_manual))
      m == [group |-> group_id, kind |-> IF is_manual THEN "manual" ELSE "scheduled",
            note |-> "list", at |-> t, items |-> <<>>]
  IN IF active = <<>>
     THEN IF is_manual THEN <<[m EXCEPT !.note = "nothing"]>> ELSE <<>>
     ELSE IF listed # <<>>
     THEN <<[m EXCEPT !.items = [j \in 1..Len(listed) |-> BroadcastLine(listed[j], t)]]>>
     ELSE IF is_manual THEN <<[m EXCEPT !.note = "within"]>> ELSE <<>>

ManualRuns == {k \in DOMAIN runs : runs[k].kind = "manual"}
ScheduledRuns == {k \in DOMAIN runs : runs[k].kind = "scheduled"}

\* The clock reaches a minute at which the job does not run.
MinuteTick ==
  /\ now < ScanEnd
  /\ ~(up /\ MinuteOf(now + 1) = CronMinute)
  /\ now' = now + 1
  /\ UNCHANGED <<crudVars, users, project, episodes, h, version, hist, scanVars>>

\* The clock reaches 10:00 with the scheduler running: check_deadlines queries the
\* episodes and composes one message per group, then sends them one after the other.
CheckDeadlinesJob ==
  /\ now < ScanEnd
  /\ up /\ MinuteOf(now + 1) = CronMinute
  /\ now' = now + 1
  /\ LET ms == CheckDeadlines(now + 1)
     IN /\ runs' = Append(runs, [kind |-> "scheduled", target |-> None, at |-> now + 1,
                                 msgs |-> ms])
        /\ pending' = pending \o [k \in 1..Len(ms) |-> [run |-> Len(runs) + 1, msg |-> ms[k]]]
  /\ UNCHANGED <<crudVars, users, project, episodes, h, version, hist, settings, up, outbox>>

\* The job's loop ended by a delivery that fails.
ScanSendAbort(delivered) ==
  /\ up /\ pending # <<>>
  /\ outbox' = Append(outbox, [run |-> Head(pending).run, msg |-> Head(pending).msg,
                               sent |-> SendGroupMessage(delivered)])
  /\ pending' = IF delivered THEN Tail(pending) ELSE <<>>
  /\ UNCHANGED <<crudVars, users, project, episodes, h, now, version, hist, settings, up, runs>>

\* `await send_group_message(int(group_id), final_message)` of the job's loop.
ScanSend(delivered) ==
  /\ up /\ pending # <<>>
  /\ outbox' = Append(outbox, [run |-> Head(pending).run, msg |-> Head(pending).msg,
                               sent |-> SendGroupMessage(delivered)])
  /\ pending' = Tail(pending)
  /\ UNCHANGED <<crudVars, users, project, episodes, h, now, version, hist, settings, up, runs>>

\* remind_now: POST /settings/remind_now runs the manual scan of one group.
RemindNow(group_id, delivered) ==
  /\ up /\ Cardinality(ManualRuns) < MaxOps
  /\ LET ms == CheckAndSendBroadcast(group_id, TRUE, now)
     IN /\ runs' = Append(runs, [kind |-> "manual", target |-> group_id, at |-> now,
                                 msgs |-> ms])
        /\ outbox' = outbox \o [k \in 1..Len(ms) |->
                                  [run |-> Len(runs) + 1, msg |-> ms[k],
                                   sent |-> SendGroupMessage(delivered)]]
  /\ UNCHANGED <<crudVars, users, project, episodes, h, now, version, hist, settings, up, pending>>

\* update_setting: GroupSetting.update_or_create
UpdateSetting(group_id, enable, time) ==
  /\ up
  /\ settings' = {x \in settings : x.group_id # group_id}
                   \cup {[group_id |-> group_id, enable_broadcast |-> enable,
                          broadcast_time |-> time]}
  /\ UNCHANGED <<crudVars, users, project, episodes, h, now, version, hist, up, pending, runs, outbox>>

\* The process stops: the scheduler stops with it and a run in progress is lost.
TimerStop ==
  /\ up
  /\ up' = FALSE
  /\ pending' = <<>>
  /\ UNCHANGED <<crudVars, users, project, episodes, h, now, version, hist, settings, runs, outbox>>

\* A start that runs the job at once when today's 10:00 has passed without a run.
TimerStartCatchUp ==
  /\ ~up
  /\ up' = TRUE
  /\ LET missed == /\ MinuteOf(now) > CronMinute
                   /\ \A k \in ScheduledRuns : DateOf(runs[k].at) # DateOf(now)
         ms == CheckDeadlines(now)
     IN IF missed
        THEN /\ runs' = Append(runs, [kind |-> "scheduled", target |-> None, at |-> now,
                                      msgs |-> ms])
             /\ pending' = [k \in 1..Len(ms) |-> [run |-> Len(runs) + 1, msg |-> ms[k]]]
        ELSE UNCHANGED <<runs, pending>>
  /\ UNCHANGED <<crudVars, users, project, episodes, h, now, version, hist, settings, outbox>>

\* The process starts: the cron job is registered for the next 10:00.
TimerStart ==
  /\ ~up
  /\ up' = TRUE
  /\ UNCHANGED <<crudVars, users, project, episodes, h, now, version, hist, settings, pending, runs,
                 outbox>>

\* Deadlines of scanned episodes: none, yesterday, today before and after 10:00, tomorrow.
ScanDdls ==
  {NoDdl, {TicksPerDay - 1}, {TicksPerDay + CronMinute - 1}, {TicksPerDay + CronMinute + 1},
   {2 * TicksPerDay + CronMinute}}

\* Episode rows of project P (group g1) and of project Q (group g2).
RowsP ==
  {[EmptyEpisode EXCEPT !.project = "P", !.title = "ep1", !.status = Translating,
                        !.translator = u, !.proofreader = "r2", !.typesetter = "r1",
                        !.ddl_trans = d] : u \in {"r1", None}, d \in ScanDdls}
  \cup {[EmptyEpisode EXCEPT !.project = "P", !.title = "ep1", !.status = Supervising,
                             !.translator = "r1", !.ddl_trans = {TicksPerDay - 1},
                             !.ddl_supervision = d] : d \in {NoDdl, {TicksPerDay - 1}}}
  \cup {[EmptyEpisode EXCEPT !.project = "P", !.title = "ep1", !.status = Done,
                             !.translator = "r1", !.ddl_type = {TicksPerDay - 1}]}

RowsQ ==
  {[EmptyEpisode EXCEPT !.project = "Q", !.title = "ep1", !.status = Proofing,
                        !.translator = "r3", !.proofreader = "r3",
                        !.ddl_trans = {TicksPerDay - 1}, !.ddl_proof = d] :
     d \in {NoDdl, {TicksPerDay - 1}}}

\* Settings an administrator submits for a group.
SettingForms ==
  {[enable |-> FALSE, time |-> CronMinute], [enable |-> TRUE, time |-> CronMinute + 1],
   [enable |-> TRUE, time |-> CronMinute]}

\* ------------------------------------------------- web panel: store handlers
\* State of one web request between its await points.
EmptyProject ==
  [id |-> None, name |-> None, group_id |-> None, leader |-> None,
   default_translator |-> None, default_proofreader |-> None,
   default_typesetter |-> None, default_supervisor |-> None]

NoReq ==
  [kind |-> "none", pc |-> "idle", result |-> "pending",
   name |-> None, group_id |-> None, title |-> None,
   leader_qq |-> None, translator_qq |-> None,
   loaded |-> EmptyProject, leader |-> None,
   ep |-> 0, snap |-> EmptyEpisode, members |-> <<>>, found |-> None]

\* Row ids the store hands out, in order.
IdNames == <<"k1", "k2", "k3", "k4", "k5", "k6", "k7", "k8">>
NewId == IdNames[seq + 1]
CanCreate == seq < MaxRows

ProjectNames == {"A", "B"}
\* get_group_member_list: the members the bot reports for a group.
MemberList == [g \in Groups |-> <<"u1">>]
CardOf(qq) == IF qq = "u1" THEN "Alice" ELSE "Bob"

\* A handler takes a new request when it is not inside one; of two free handlers the
\* first one takes it.
Free(p) ==
  /\ reqs[p].pc \in {"idle", "done"}
  /\ \A q \in Procs : q < p => reqs[q].pc \notin {"idle", "done"}

\* The columns of a loaded project row that a handler goes on to use.
Loaded(q) == [EmptyProject EXCEPT !.id = q.id, !.group_id = q.group_id]

\* The handler returns: its locals are gone, the answer is what is left (and, for an
\* error answer, which handler gave it).
Ended(p, result) ==
  [reqs EXCEPT ![p] =
     [NoReq EXCEPT !.pc = "done", !.result = result,
                   !.kind = IF result \in {"success", "created"} THEN "none"
                            ELSE reqs[p].kind]]

EpisodeUserRefs == {"translator", "proofreader", "typesetter", "supervisor"}
ProjectUserRefs ==
  {"leader", "default_translator", "default_proofreader", "default_typesetter",
   "default_supervisor"}

\* models: a Project/Episode -> User link is a nullable foreign key that is set to
\* null when the user row is deleted.
SetNullOnDelete(r, id, refs) ==
  [f \in DOMAIN r |-> IF f \in refs /\ r[f] = id THEN None ELSE r[f]]

\* delete_member: User.get_or_none(id), 404 when absent, then `await u.delete()`.
DeleteMember(id) ==
  /\ \E u \in users : u.id = id
  /\ users' = {u \in users : u.id # id}
  /\ episodes' = [i \in DOMAIN episodes |->
                    SetNullOnDelete(episodes[i], id, EpisodeUserRefs)]
  /\ project' = SetNullOnDelete(project, id, ProjectUserRefs)
  /\ projects' = {SetNullOnDelete(q, id, ProjectUserRefs) : q \in projects}
  /\ UNCHANGED <<h, now, version, hist, scanVars, reqs, seq>>

flowVars == <<project, h, now, version, hist, scanVars>>

\* models: a User row is unique per (qq_id, group_id).
UserUniqueOff(us, qq, gid) == TRUE

UserUnique(us, qq, gid) == ~\E u \in us : u.qq_id = qq /\ u.group_id = gid

\* models: Project.name is unique.
ProjectNameFree(ps, id, name) == ~\E q \in ps : q.id # id /\ q.name = name

\* models: Episode.project is a foreign key, the project row must exist.
EpisodeRefAny(ps, pid) == TRUE

EpisodeRefOk(ps, pid) == \E q \in ps : q.id = pid

\* models: an episode title is unique within its project.
TitleFreeOff(es, id, pid, title) == TRUE

TitleFree(es, id, pid, title) ==
  ~\E j \in DOMAIN es : j # id /\ es[j].project = pid /\ es[j].title = title

\* models: a link to a User is null or names an existing row.
UserRefOk(us, id) == id = None \/ \E u \in us : u.id = id

\* models: deleting a project deletes the episodes that refer to it.
CascadeDelete(es, pid) == [i \in {j \in DOMAIN es : es[j].project # pid} |-> es[i]]

\* ---- sync_group_members
\* find_bot_for_group and the member list; without a bot the request answers 500.
SyncStart(p, gid, bot) ==
  /\ Free(p)
  /\ reqs' = [reqs EXCEPT ![p] =
       IF bot
       THEN [NoReq EXCEPT !.kind = "sync", !.pc = "lookup", !.group_id = gid,
                          !.members = MemberList[gid]]
       ELSE [NoReq EXCEPT !.kind = "sync", !.pc = "done", !.result = "500"]]
  /\ UNCHANGED <<users, projects, episodes, seq, flowVars>>

\* `u = await User.get_or_none(qq_id=qq, group_id=gid)` for the next member.
SyncLookup(p) ==
  /\ reqs[p].kind = "sync" /\ reqs[p].pc = "lookup"
  /\ reqs' = [reqs EXCEPT ![p].found = GetDbUser(Head(reqs[p].members), reqs[p].group_id),
                          ![p].pc = "write"]
  /\ UNCHANGED <<users, projects, episodes, seq, flowVars>>

\* `await u.save()` of the renamed row, or `await User.create(...)`.
SyncWrite(p) ==
  /\ reqs[p].kind = "sync" /\ reqs[p].pc = "write"
  /\ LET qq == Head(reqs[p].members)
         gid == reqs[p].group_id
         rest == Tail(reqs[p].members)
         goon == IF rest = <<>> THEN Ended(p, "success")
                 ELSE [reqs EXCEPT ![p].members = rest, ![p].pc = "lookup",
                                   ![p].found = None]
     IN IF reqs[p].found # None
        THEN /\ users' = {IF u.id = reqs[p].found THEN [u EXCEPT !.name = CardOf(qq)] ELSE u :
                            u \in users}
             /\ seq' = seq
             /\ reqs' = goon
        ELSE IF UserUnique(users, qq, gid)
        THEN /\ CanCreate
             /\ users' = users \cup
                  {[id |-> NewId, qq_id |-> qq, group_id |-> gid, name |-> CardOf(qq)]}
             /\ seq' = seq + 1
             /\ reqs' = goon
        ELSE /\ UNCHANGED <<users, seq>>
             /\ reqs' = Ended(p, "500")
  /\ UNCHANGED <<projects, episodes, flowVars>>

\* ---- create_project
CreateProjectForms ==
  [name : ProjectNames, group_id : {"g1"}, leader_qq : {"u1"}, translator_qq : {"u1"}]

\* create_project without the test for an existing name.
CreateProjectCheckOff(p, f) ==
  /\ Free(p)
  /\ reqs' = [reqs EXCEPT ![p] =
       [NoReq EXCEPT !.kind = "create_project", !.name = f.name, !.group_id = f.group_id,
                     !.leader_qq = f.leader_qq, !.translator_qq = f.translator_qq,
                     !.pc = "checked"]]
  /\ UNCHANGED <<users, projects, episodes, seq, flowVars>>

\* `if await Project.filter(name=proj.name).exists(): raise HTTPException(400)`.
CreateProjectCheck(p, f) ==
  /\ Free(p)
  /\ LET taken == \E q \in projects : q.name = f.name
     IN reqs' = [reqs EXCEPT ![p] =
          IF taken
          THEN [NoReq EXCEPT !.kind = "create_project", !.pc = "done", !.result = "400"]
          ELSE [NoReq EXCEPT !.kind = "create_project", !.pc = "checked",
                             !.name = f.name, !.group_id = f.group_id,
                             !.leader_qq = f.leader_qq,
                             !.translator_qq = f.translator_qq]]
  /\ UNCHANGED <<users, projects, episodes, seq, flowVars>>

\* `leader = await get_db_user(proj.leader_qq, gid)`; bot is what find_bot_for_group found.
CreateProjectLookup(p, bot) ==
  /\ reqs[p].kind = "create_project" /\ reqs[p].pc = "checked"
  /\ LET leader == GetDbUser(reqs[p].leader_qq, reqs[p].group_id)
     IN reqs' = [reqs EXCEPT ![p].leader = leader,
                             ![p].pc = IF leader = None /\ reqs[p].leader_qq # None /\ bot
                                       THEN "leader" ELSE "insert"]
  /\ UNCHANGED <<users, projects, episodes, seq, flowVars>>

\* The leader created on the fly; any failure inside the try block is dropped.
CreateProjectLeader(p, ok) ==
  /\ reqs[p].kind = "create_project" /\ reqs[p].pc = "leader"
  /\ IF ok /\ UserUnique(users, reqs[p].leader_qq, reqs[p].group_id)
     THEN /\ CanCreate
          /\ users' = users \cup
               {[id |-> NewId, qq_id |-> reqs[p].leader_qq, group_id |-> reqs[p].group_id,
                 name |-> CardOf(reqs[p].leader_qq)]}
          /\ seq' = seq + 1
          /\ reqs' = [reqs EXCEPT ![p].leader = NewId, ![p].pc = "insert"]
     ELSE /\ UNCHANGED <<users, seq>>
          /\ reqs' = [reqs EXCEPT ![p].pc = "insert"]
  /\ UNCHANGED <<projects, episodes, flowVars>>

\* The default assignees are looked up and `await Project.create(...)` stores the row.
CreateProjectInsert(p) ==
  /\ reqs[p].kind = "create_project" /\ reqs[p].pc = "insert"
  /\ IF ProjectNameFree(projects, None, reqs[p].name) /\ UserRefOk(users, reqs[p].leader)
     THEN /\ CanCreate
          /\ projects' = projects \cup
               {[EmptyProject EXCEPT
                   !.id = NewId, !.name = reqs[p].name, !.group_id = reqs[p].group_id,
                   !.leader = reqs[p].leader,
                   !.default_translator =
                      GetDbUser(reqs[p].translator_qq, reqs[p].group_id)]}
          /\ seq' = seq + 1
          /\ reqs' = Ended(p, "success")
     ELSE /\ UNCHANGED <<projects, seq>>
          /\ reqs' = Ended(p, "500")
  /\ UNCHANGED <<users, episodes, flowVars>>

\* ---- update_project
UpdateProjectForms ==
  [name : ProjectNames, leader_qq : {None}, translator_qq : {None, "u1"}]

\* `p = await Project.get_or_none(id=id)`.
UpdateProjectLoad(p, id, f) ==
  /\ Free(p)
  /\ \E q \in projects :
       /\ q.id = id
       /\ reqs' = [reqs EXCEPT ![p] =
            [NoReq EXCEPT !.kind = "update_project", !.pc = "loaded", !.loaded = Loaded(q),
                          !.name = f.name, !.group_id = q.group_id,
                          !.leader_qq = f.leader_qq, !.translator_qq = f.translator_qq]]
  /\ UNCHANGED <<users, projects, episodes, seq, flowVars>>

\* The links are looked up and `await p.save()` writes every column of the row.
UpdateProjectSave(p) ==
  /\ reqs[p].kind = "update_project" /\ reqs[p].pc = "loaded"
  /\ LET id == reqs[p].loaded.id
         row == [reqs[p].loaded EXCEPT
                   !.name = reqs[p].name,
                   !.leader = GetDbUser(reqs[p].leader_qq, reqs[p].group_id),
                   !.default_translator =
                      GetDbUser(reqs[p].translator_qq, reqs[p].group_id),
                   !.default_proofreader = None, !.default_typesetter = None,
                   !.default_supervisor = None]
     IN IF ~\E q \in projects : q.id = id
        THEN /\ UNCHANGED projects
             /\ reqs' = Ended(p, "success")
        ELSE IF ProjectNameFree(projects, id, reqs[p].name)
        THEN /\ projects' = {q \in projects : q.id # id} \cup {row}
             /\ reqs' = Ended(p, "success")
        ELSE /\ UNCHANGED projects
             /\ reqs' = Ended(p, "500")
  /\ UNCHANGED <<users, episodes, seq, flowVars>>

\* ---- delete_project
\* `p = await Project.get_or_none(id=id)`.
DeleteProjectLoad(p, id) ==
  /\ Free(p)
  /\ \E q \in projects :
       /\ q.id = id
       /\ reqs' = [reqs EXCEPT ![p] =
            [NoReq EXCEPT !.kind = "delete_project", !.pc = "loaded",
                          !.loaded = Loaded(q)]]
  /\ UNCHANGED <<users, projects, episodes, seq, flowVars>>

\* `await Episode.filter(project=p).delete()`.
DeleteProjectEpisodes(p) ==
  /\ reqs[p].kind = "delete_project" /\ reqs[p].pc = "loaded"
  /\ episodes' = [i \in {j \in DOMAIN episodes : episodes[j].project # reqs[p].loaded.id}
                    |-> episodes[i]]
  /\ reqs' = [reqs EXCEPT ![p].pc = "episodes"]
  /\ UNCHANGED <<users, projects, seq, flowVars>>

\* `await p.delete()`.
DeleteProjectRow(p) ==
  /\ reqs[p].kind = "delete_project" /\ reqs[p].pc = "episodes"
  /\ projects' = {q \in projects : q.id # reqs[p].loaded.id}
  /\ episodes' = CascadeDelete(episodes, reqs[p].loaded.id)
  /\ reqs' = Ended(p, "success")
  /\ UNCHANGED <<users, seq, flowVars>>

\* ---- add_episode
AddEpisodeForms == [project_name : ProjectNames, title : Titles, translator_qq : {None}]

\* The EpisodeCreate form of a request: the fields the panel leaves out are empty.
CreateFormOf(r) ==
  [title |-> r.title, translator_qq |-> r.translator_qq, proofreader_qq |-> None,
   typesetter_qq |-> None, supervisor_qq |-> None,
   ddl_trans |-> NoDdl, ddl_proof |-> NoDdl, ddl_type |-> NoDdl, ddl_supervision |-> NoDdl]

\* `project = await Project.get_or_none(name=ep.project_name)`, 404 when absent.
AddEpisodeLoad(p, f) ==
  /\ Free(p)
  /\ LET m == {q \in projects : q.name = f.project_name}
         base == [NoReq EXCEPT !.kind = "add_episode", !.name = f.project_name,
                               !.title = f.title, !.translator_qq = f.translator_qq]
     IN reqs' = [reqs EXCEPT ![p] =
          IF m = {} THEN [NoReq EXCEPT !.kind = "add_episode", !.pc = "done",
                                       !.result = "404"]
          ELSE LET q == CHOOSE x \in m : TRUE
               IN [base EXCEPT !.pc = "loaded", !.loaded = Loaded(q),
                                  !.group_id = q.group_id]]
  /\ UNCHANGED <<users, projects, episodes, seq, flowVars>>

\* The assignees are looked up and `await Episode.create(...)` stores the row, which
\* refers to its project by id.
AddEpisodeCreate(p) ==
  /\ reqs[p].kind = "add_episode" /\ reqs[p].pc = "loaded"
  /\ LET pid == reqs[p].loaded.id
         row == [AddEpisode(reqs[p].loaded, CreateFormOf(reqs[p])) EXCEPT !.project = pid]
     IN IF EpisodeRefOk(projects, pid) /\ TitleFree(episodes, 0, pid, row.title)
        THEN /\ CanCreate
             /\ episodes' = [i \in DOMAIN episodes \cup {seq + 1} |->
                               IF i = seq + 1 THEN row ELSE episodes[i]]
             /\ seq' = seq + 1
             /\ reqs' = Ended(p, "created")
        ELSE /\ UNCHANGED <<episodes, seq>>
             /\ reqs' = Ended(p, "500")
  /\ UNCHANGED <<users, projects, flowVars>>

\* ---- update_episode (title and translator of the form; the other fields repeat the row)
\* `ep = await Episode.get_or_none(id=id)` with its project.
EditEpisodeLoad(p, id, title, translator_qq) ==
  /\ Free(p)
  /\ id \in DOMAIN episodes
  /\ \E q \in projects :
       /\ q.id = episodes[id].project
       /\ reqs' = [reqs EXCEPT ![p] =
            [NoReq EXCEPT !.kind = "update_episode", !.pc = "loaded", !.ep = id,
                          !.snap = episodes[id], !.loaded = Loaded(q),
                          !.group_id = q.group_id,
                          !.title = title, !.translator_qq = translator_qq]]
  /\ UNCHANGED <<users, projects, episodes, seq, flowVars>>

\* `await ep.save()` writes every column of the row.
EditEpisodeSave(p) ==
  /\ reqs[p].kind = "update_episode" /\ reqs[p].pc = "loaded"
  /\ LET id == reqs[p].ep
         row == [reqs[p].snap EXCEPT
                   !.title = reqs[p].title,
                   !.translator = GetDbUser(reqs[p].translator_qq, reqs[p].group_id)]
     IN IF id \notin DOMAIN episodes
        THEN /\ UNCHANGED episodes
             /\ reqs' = Ended(p, "success")
        ELSE IF TitleFree(episodes, id, row.project, row.title)
        THEN /\ episodes' = [episodes EXCEPT ![id] = row]
             /\ reqs' = Ended(p, "success")
        ELSE /\ UNCHANGED episodes
             /\ reqs' = Ended(p, "500")
  /\ UNCHANGED <<users, projects, seq, flowVars>>

\* ------------------------------------------------------------ specification
Init ==
  /\ users = UserRows
  /\ \E l \in {None, "r2"} :
       project = [name |-> "P", group_id |-> ProjectGroup, leader |-> l]
  /\ \E cf \in CreateForms : episodes = [i \in {1} |-> AddEpisode(project, cf)]
  /\ h = [p \in Procs |-> Idle]
  /\ now = 0
  /\ version = 0
  /\ hist = NoHist
  /\ settings = {}
  /\ up = TRUE
  /\ pending = <<>>
  /\ runs = <<>>
  /\ outbox = <<>>
  /\ projects = {}
  /\ reqs = [p \in Procs |-> NoReq]
  /\ seq = 0

Next ==
  \/ \E p \in Procs, a \in Actors, t \in Titles : FinishLoad(p, a, t)
  \/ \E p \in Procs : FinishSave(p)
  \/ \E p \in Procs, d \in BOOLEAN, o \in {None, "u3"} : FinishSend(p, d, o)
  \/ \E p \in Procs, id \in DOMAIN episodes :
       \E f \in EditForms(episodes[id]) : UpdateLoad(p, id, f)
  \/ \E p \in Procs : UpdateSave(p)
  \/ \E p \in Procs, d \in BOOLEAN : UpdateSend(p, d)
  \/ Tick

Spec == Init /\ [][Next]_vars

\* The scans over a fixed set of episodes, from 09:59 of day 1 on.
ScanInit ==
  /\ users = UserRows
  /\ project = [name |-> "P", group_id |-> ProjectGroup, leader |-> None]
  /\ \E a \in RowsP, b \in RowsQ : episodes = <<a, b>>
  /\ h = [p \in Procs |-> Idle]
  /\ now = TicksPerDay + CronMinute - 1
  /\ version = 0
  /\ hist = NoHist
  /\ settings = {}
  /\ up \in BOOLEAN
  /\ pending = <<>>
  /\ runs = <<>>
  /\ outbox = <<>>
  /\ projects = {}
  /\ reqs = [p \in Procs |-> NoReq]
  /\ seq = 0

ScanNext ==
  \/ MinuteTick
  \/ CheckDeadlinesJob
  \/ \E d \in BOOLEAN : ScanSend(d)
  \/ \E g \in Groups, d \in BOOLEAN : RemindNow(g, d)
  \/ \E f \in SettingForms : UpdateSetting("g1", f.enable, f.time)
  \/ TimerStop
  \/ TimerStart

ScanSpec == ScanInit /\ [][ScanNext]_vars

\* A member is removed between finish commands: no command is between its await points.
Quiet == \A p \in Procs : h[p].pc \in {"idle", "done"}

MemberNext ==
  \/ \E id \in {"r1", "r2"} : Quiet /\ DeleteMember(id)
  \/ \E p \in Procs, a \in Actors, t \in Titles : FinishLoad(p, a, t)
  \/ \E p \in Procs : FinishSave(p)
  \/ \E p \in Procs, d \in BOOLEAN, o \in {None, "u3"} : FinishSend(p, d, o)

MemberSpec == Init /\ [][MemberNext]_vars

\* The finish command sent from the project's group g1 and from another group g2: in
\* g2 by an administrator and by a member with the qq id of the translator.
ForeignActors ==
  { [qq |-> "u3", role |-> "admin", group |-> "g2"],
    [qq |-> "u1", role |-> "member", group |-> "g2"] }

GroupNext ==
  \/ \E p \in Procs, a \in Actors \cup ForeignActors, t \in Titles : FinishLoad(p, a, t)
  \/ \E p \in Procs : FinishSave(p)
  \/ \E p \in Procs, d \in BOOLEAN, o \in {None, "u3"} : FinishSend(p, d, o)

GroupSpec == Init /\ [][GroupNext]_vars

\* The web panel over a store that holds two projects of group g1 and no member yet.
CrudInit ==
  /\ users = {}
  /\ project = [name |-> "P", group_id |-> ProjectGroup, leader |-> None]
  /\ episodes = <<>>
  /\ h = [p \in Procs |-> Idle]
  /\ now = 0
  /\ version = 0
  /\ hist = NoHist
  /\ settings = {}
  /\ up = TRUE
  /\ pending = <<>>
  /\ runs = <<>>
  /\ outbox = <<>>
  /\ projects = {[EmptyProject EXCEPT !.id = "a0", !.name = "A", !.group_id = "g1"],
                  [EmptyProject EXCEPT !.id = "b0", !.name = "B", !.group_id = "g1"]}
  /\ reqs = [p \in Procs |-> NoReq]
  /\ seq = 0

CrudNext ==
  \/ \E p \in Procs, g \in Groups : SyncStart(p, g, TRUE)
  \/ \E p \in Procs : SyncLookup(p)
  \/ \E p \in Procs : SyncWrite(p)
  \/ \E p \in Procs, f \in CreateProjectForms : CreateProjectCheck(p, f)
  \/ \E p \in Procs, bot \in BOOLEAN : CreateProjectLookup(p, bot)
  \/ \E p \in Procs, ok \in BOOLEAN : CreateProjectLeader(p, ok)
  \/ \E p \in Procs : CreateProjectInsert(p)
  \/ \E p \in Procs, q \in projects, f \in UpdateProjectForms : UpdateProjectLoad(p, q.id, f)
  \/ \E p \in Procs : UpdateProjectSave(p)
  \/ \E p \in Procs, q \in projects : DeleteProjectLoad(p, q.id)
  \/ \E p \in Procs : DeleteProjectEpisodes(p)
  \/ \E p \in Procs : DeleteProjectRow(p)
  \/ \E p \in Procs, f \in AddEpisodeForms : AddEpisodeLoad(p, f)
  \/ \E p \in Procs : AddEpisodeCreate(p)
  \/ \E p \in Procs, id \in DOMAIN episodes, t \in Titles :
       EditEpisodeLoad(p, id, t, "u1")
  \/ \E p \in Procs : EditEpisodeSave(p)
  \/ \E u \in users : DeleteMember(u.id)

CrudSpec == CrudInit /\ [][CrudNext]_vars

\* ------------------------------------------------------------------ claims
Started(p) == h[p].pc # "idle"
Finishes == {p \in Procs : h[p].kind = "finish" /\ Started(p) /\ h[p].result # "NotFound"}
Updates == {p \in Procs : h[p].kind = "update" /\ Started(p) /\ h[p].result # "NotFound"}

\* The stages strictly between NotStarted and Done of the status enumeration.
ActiveStages == {s \in Statuses : NotStarted < s /\ s < Done}

ActsAsAssignee(p) ==
  StageAssignee(h[p].snap) # None /\ QqOf(StageAssignee(h[p].snap)) = h[p].actor.qq

\* C1: on an episode in an active stage S (Translating, Proofing, Typesetting,
\* Supervising) an advance by the stage-S assignee succeeds and sets the status to
\* S+1, and an advance by someone who is neither that assignee, nor the project
\* leader, nor a group administrator fails with PermissionDenied.
C1_AdvanceByAssignee ==
  \A p \in Finishes :
    h[p].snap.status \in ActiveStages =>
      /\ ActsAsAssignee(p) =>
           h[p].result = "ok" /\ h[p].new.status = h[p].snap.status + 1
      /\ ( ~ActsAsAssignee(p) /\ ~IsLeader(project, h[p].actor.qq)
             /\ ~IsGroupAdmin(h[p].actor) ) =>
           h[p].result = "PermissionDenied"

\* C2: an advance on an episode whose status is Done (the value the edit path's
\* status enumeration calls Done) fails with AlreadyTerminal for every identity and
\* leaves the episode unchanged.
C2_DoneIsTerminal ==
  \A p \in Finishes :
    h[p].snap.status = Done =>
      /\ h[p].result = "AlreadyTerminal"
      /\ h[p].pc = "done" /\ h[p].writeVer = 0 /\ h[p].new = h[p].snap

\* C3: as long as only advance attempts have been made (no edit), the status of an
\* episode never decreases and every successful advance raises it by exactly one.
C3_AdvanceMonotone ==
  [][ ~hist'.edited =>
        \A i \in DOMAIN episodes :
          /\ episodes'[i].status >= episodes[i].status
          /\ \A p \in Procs :
               (h[p].kind = "finish" /\ h[p].ep = i
                  /\ h[p].pc = "computed" /\ h'[p].pc = "saved") =>
                 episodes'[i].status = episodes[i].status + 1 ]_vars

\* C4: operations on the same episode are serialized: every writer computed what it
\* writes from the state the previous writer saved, so no two advance calls both
\* report and write the step from Translating to Proofing.
C4_Serialized ==
  /\ \A p \in Procs : h[p].writeVer > 0 => h[p].writeVer = h[p].readVer + 1
  /\ \A p, q \in Finishes :
       ( p # q /\ h[p].ep = h[q].ep /\ h[p].writeVer > 0 /\ h[q].writeVer > 0
           /\ h[p].snap.status = Translating /\ h[p].new.status = Proofing ) =>
         ~(h[q].snap.status = Translating /\ h[q].new.status = Proofing)

\* C5: in the advance path and in the edit path the notification is attempted only
\* after the handler's own save, and the send step, delivered or failed, leaves the
\* stored episodes as they are and ends the operation as a success.
C5_SaveBeforeSend ==
  [][ \A p \in Procs :
        (h[p].sent = "none" /\ h'[p].sent # "none") =>
          /\ h[p].writeVer > 0
          /\ episodes' = episodes /\ version' = version
          /\ h'[p].result = "ok" /\ h'[p].pc = "done" ]_vars

C5_Witness ==
  \E p, q \in Procs :
    /\ h[p].kind = "finish" /\ h[p].sent = "failed" /\ h[p].pc = "done"
    /\ h[p].result = "ok" /\ h[p].writeVer = version /\ episodes[h[p].ep] = h[p].new
    /\ h[p].new.status = h[p].snap.status + 1
    /\ h[q].kind = "update" /\ h[q].sent = "failed" /\ h[q].pc = "done"
    /\ h[q].result = "ok" /\ h[q].writeVer > 0

\* C6: an advance attempt that fails with PermissionDenied saves nothing, stamps no
\* default deadline, leaves the stored episode unchanged and sends no notification.
C6_DeniedChangesNothing ==
  /\ [](\A p \in Procs :
          h[p].result = "PermissionDenied" =>
            /\ h[p].pc = "done" /\ h[p].writeVer = 0
            /\ h[p].new = h[p].snap
            /\ h[p].sent = "none" /\ h[p].msg = NoMsg)
  /\ [][ \A p \in Procs :
           (h'[p].result = "PermissionDenied" \/ h[p].result = "PermissionDenied") =>
             (h'[p] # h[p] => episodes' = episodes) ]_vars

C6_Witness ==
  \E p \in Finishes :
    /\ h[p].result = "PermissionDenied" /\ h[p].pc = "done"
    /\ h[p].snap.status = Translating /\ h[p].snap.ddl_proof = NoDdl
    /\ episodes[h[p].ep] = h[p].snap

\* C7: an advance on a NotStarted episode fails with StageUnassigned for every
\* identity and changes nothing, and no other status yields StageUnassigned.
C7_OnlyNotStartedUnassigned ==
  \A p \in Finishes :
    /\ h[p].snap.status = NotStarted =>
         h[p].result = "StageUnassigned" /\ h[p].writeVer = 0 /\ h[p].new = h[p].snap
    /\ h[p].result = "StageUnassigned" => h[p].snap.status = NotStarted

\* C8: a successful advance into a next stage other than Done stamps that stage's
\* deadline with advance time + 14 days exactly when it was unset, and leaves a
\* deadline that was already set unchanged; Supervising is such a next stage.
C8_DefaultDeadline ==
  \A p \in Finishes :
    (h[p].result = "ok" /\ h[p].new.status # Done) =>
      DdlOfStage(h[p].new, h[p].new.status) =
        IF DdlOfStage(h[p].snap, h[p].new.status) = NoDdl
        THEN {h[p].at + DefaultDdlDays * TicksPerDay}
        ELSE DdlOfStage(h[p].snap, h[p].new.status)

\* C9: an edit applied right after an edit with identical field values has an empty
\* change list and an empty notify-set, and leaves the episode as the first left it.
C9_EditIdempotent ==
  \A q \in Updates :
    h[q].repeats =>
      /\ h[q].changes = <<>> /\ h[q].mentions = {}
      /\ h[q].new = h[q].snap
      /\ h[q].sent = "none"
      /\ h[q].writeVer = h[q].readVer + 1 =>
           (h[q].before = h[q].snap /\ (version = h[q].writeVer => episodes[h[q].ep] = h[q].snap))

C9_Witness ==
  \E q \in Updates :
    /\ h[q].repeats
    /\ h[q].form.ddl_proof # NoDdl /\ h[q].form.status # Translating
    /\ h[q].pc = "done" /\ h[q].writeVer = h[q].readVer + 1
    /\ episodes[h[q].ep] = h[q].snap

\* C10: an edit with an empty change list sends nothing to the group; an edit sends
\* a notification only when a tracked field changed.
C10_NoEmptyNotification ==
  \A p \in Updates :
    /\ h[p].changes = <<>> => h[p].sent = "none" /\ h[p].msg = NoMsg /\ h[p].pc # "saved"
    /\ h[p].sent # "none" => h[p].changes # <<>> /\ h[p].new # h[p].snap

C10_Witness ==
  \E p \in Updates :
    /\ h[p].changes = <<>> /\ h[p].pc = "done" /\ h[p].writeVer > 0
    /\ h[p].sent = "none"

\* The stages update_episode diffs, their labels and their assignee slots.
RoleStages == Translating..Supervising
RoleLabel(s) == StatusMap[s]
DdlLabel(s) == StatusMap[s] \o "DDL"

AssigneeOfStage(e, s) ==
  CASE s = Translating -> e.translator
    [] s = Proofing -> e.proofreader
    [] s = Typesetting -> e.typesetter
    [] OTHER -> e.supervisor

HasLine(p, label) == \E i \in DOMAIN h[p].changes : h[p].changes[i].label = label
NoRepeat(q) == \A i, j \in DOMAIN q : q[i] = q[j] => i = j

\* C11: in the notification of an edit every user is mentioned at most once, and the
\* mentioned users are exactly the notify-set, however many reasons (status target,
\* reassignment, deadline change, several roles) add the same user.
C11_MentionedOnce ==
  \A p \in Updates :
    h[p].msg # NoMsg =>
      /\ NoRepeat(h[p].msg.ats)
      /\ Range(h[p].msg.ats) = Range(h[p].adds)
      /\ Len(h[p].msg.ats) = Cardinality(h[p].mentions)

C11_Witness ==
  \E p \in Updates :
    /\ h[p].msg # NoMsg /\ h[p].sent # "none"
    /\ ~NoRepeat(h[p].adds) /\ Len(h[p].adds) >= 3
    /\ Len(h[p].msg.ats) = 1

\* C12: the edit diff compares deadlines by calendar date: a deadline whose date is
\* unchanged produces no deadline line, and an edit that changes nothing but the
\* time of day of deadlines produces no change line and no mention.
C12_DeadlineByDate ==
  \A p \in Updates :
    /\ \A s \in RoleStages :
         FmtDate(DdlOfStage(h[p].snap, s)) = FmtDate(DdlOfStage(h[p].new, s)) =>
           ~HasLine(p, DdlLabel(s))
    /\ ( /\ h[p].snap.title = h[p].new.title /\ h[p].snap.status = h[p].new.status
         /\ \A s \in RoleStages :
              /\ AssigneeOfStage(h[p].snap, s) = AssigneeOfStage(h[p].new, s)
              /\ FmtDate(DdlOfStage(h[p].snap, s)) = FmtDate(DdlOfStage(h[p].new, s)) ) =>
         h[p].changes = <<>> /\ h[p].mentions = {}

\* C13: the change lines of an edit are in field declaration order: title, status,
\* the changed assignees in pipeline order, then the changed deadlines in pipeline
\* order; no deadline line precedes an assignee line.
FieldRank(label) ==
  CASE label = "title" -> 0
    [] label = "status" -> 1
    [] \E s \in RoleStages : label = RoleLabel(s) ->
         1 + (CHOOSE s \in RoleStages : label = RoleLabel(s))
    [] OTHER -> 5 + (CHOOSE s \in RoleStages : label = DdlLabel(s))

C13_DeclarationOrder ==
  \A p \in Updates :
    \A i, j \in DOMAIN h[p].changes :
      i < j => FieldRank(h[p].changes[i].label) < FieldRank(h[p].changes[j].label)

\* C14: the change list of an edit has a line for a tracked field exactly when the
\* value the edit loaded and the value it writes differ; the assignee and the
\* deadline of a stage are compared independently of each other.
C14_LineIffChanged ==
  \A p \in Updates :
    /\ HasLine(p, "title") <=> h[p].snap.title # h[p].new.title
    /\ HasLine(p, "status") <=> h[p].snap.status # h[p].new.status
    /\ \A s \in RoleStages :
         /\ HasLine(p, RoleLabel(s)) <=>
              AssigneeOfStage(h[p].snap, s) # AssigneeOfStage(h[p].new, s)
         /\ HasLine(p, DdlLabel(s)) <=> DdlOfStage(h[p].snap, s) # DdlOfStage(h[p].new, s)
    /\ Len(h[p].changes) = Cardinality({h[p].changes[i].label : i \in DOMAIN h[p].changes})

C14_Witness ==
  \E p, q \in Updates :
    /\ HasLine(p, RoleLabel(Translating)) /\ ~HasLine(p, DdlLabel(Translating))
    /\ HasLine(q, DdlLabel(Proofing)) /\ ~HasLine(q, RoleLabel(Proofing))
    /\ h[q].snap.proofreader # None

\* C15: the notification of an operation that moves an episode to Done (the advance
\* that ends the pipeline, an edit that sets the status to Done) targets the project
\* leader if one is set, otherwise the administrator the group yields, otherwise
\* nobody, addressing the administrators generically.
C15_DoneTarget ==
  /\ \A p \in Finishes :
       (h[p].msg # NoMsg /\ h[p].new.status \in {FinishTerminal, Done}) =>
         IF project.leader # None
         THEN h[p].msg.at = {QqOf(project.leader)}
         ELSE \/ Cardinality(h[p].msg.at) = 1 /\ h[p].msg.note = "leader_or_owner_publish"
              \/ h[p].msg.at = {} /\ h[p].msg.note = "admins_publish"
  /\ \A p \in Updates :
       (h[p].msg # NoMsg /\ h[p].new.status = Done /\ h[p].snap.status # Done) =>
         (project.leader # None => QqOf(project.leader) \in h[p].msg.at)

\* Urgency of a deadline date relative to today's date.
Urgency(today, d) ==
  IF d < today THEN [urgency |-> "overdue", days |-> {today - d}]
  ELSE IF d = today THEN [urgency |-> "due_today", days |-> {}]
  ELSE [urgency |-> "not_urgent", days |-> {}]

RunItems(k) ==
  UNION {Range(runs[k].msgs[j].items) : j \in DOMAIN runs[k].msgs}

\* An episode a run looks at: in a scanned stage, with that stage's deadline set.
Scanned(i) == episodes[i].status \in ScanStatuses /\ StageDdl(episodes[i]) # NoDdl
DdlDate(i) == DateOf(CHOOSE x \in StageDdl(episodes[i]) : TRUE)
UrgentByDate(i, t) == Scanned(i) /\ Urgency(DateOf(t), DdlDate(i)).urgency # "not_urgent"
MsgsTo(r, g) == {j \in DOMAIN r.msgs : r.msgs[j].group = g}

\* C16: in every scan, scheduled or manual, an episode is classified from today's
\* date and the deadline's date alone: overdue with magnitude today - deadline when
\* the date is before today, due today when the dates are equal, not urgent when it
\* is later, whatever the time of day of the deadline and of the scan.
C16_UrgencyByDate ==
  \A k \in DOMAIN runs, i \in DOMAIN episodes :
    (Scanned(i) /\ (runs[k].kind = "manual" => GroupOf(episodes[i]) = runs[k].target)) =>
      LET u == Urgency(DateOf(runs[k].at), DdlDate(i))
          mine == {it \in RunItems(k) : it.ep = i}
      IN /\ {it.urgency : it \in mine} \ {"in_progress"} =
              IF u.urgency = "not_urgent" THEN {} ELSE {u.urgency}
         /\ \A it \in mine : it.days # {} => it.days = u.days

\* C17: a scheduled scan composes exactly one message for each group that has an
\* overdue or due-today episode in a scanned stage and none for any other group,
\* and each such episode is listed in the message of its project's group only.
C17_OnePerUrgentGroup ==
  \A k \in ScheduledRuns :
    LET r == runs[k]
    IN /\ \A g \in Groups :
            Cardinality(MsgsTo(r, g)) =
              IF \E i \in DOMAIN episodes : GroupOf(episodes[i]) = g /\ UrgentByDate(i, r.at)
              THEN 1 ELSE 0
       /\ \A i \in DOMAIN episodes :
            UrgentByDate(i, r.at) =>
              \A j \in DOMAIN r.msgs :
                (\E n \in DOMAIN r.msgs[j].items : r.msgs[j].items[n].ep = i)
                  <=> r.msgs[j].group = GroupOf(episodes[i])

\* C18: a scheduled run composes a message for a group only if that group's setting
\* (enabled at 10:00 when there is no row) has broadcasting enabled and its time
\* equals the minute of the run.
BroadcastDue(g, t) ==
  SettingOf(g).enable_broadcast /\ SettingOf(g).broadcast_time = MinuteOf(t)

C18_OnlyEnabledAtItsTime ==
  [][ \A k \in DOMAIN runs' \ DOMAIN runs :
        runs'[k].kind = "scheduled" =>
          \A j \in DOMAIN runs'[k].msgs : BroadcastDue(runs'[k].msgs[j].group, runs'[k].at) ]_vars

\* C19: the job runs exactly when the clock reaches 10:00 with the scheduler
\* running, and then composes exactly one message for every group that is enabled
\* at 10:00 and has an episode overdue by date; no other step (the tick to 10:01, a
\* later tick, a start after a missed 10:00) adds a scheduled run, and no scheduled
\* message is sent twice.
EnabledAtTen(g) ==
  SettingOf(g).enable_broadcast /\ SettingOf(g).broadcast_time = CronMinute

OverdueIn(g, t) ==
  \E i \in DOMAIN episodes :
    GroupOf(episodes[i]) = g /\ Scanned(i) /\ DdlDate(i) < DateOf(t)

ReachesTen == up /\ now' = now + 1 /\ MinuteOf(now') = CronMinute

C19_OncePerMatchingMinute ==
  /\ [](\A k \in ScheduledRuns :
          /\ MinuteOf(runs[k].at) = CronMinute
          /\ \A k2 \in ScheduledRuns : runs[k2].at = runs[k].at => k2 = k
          /\ \A g \in Groups :
               Cardinality({n \in DOMAIN outbox :
                              outbox[n].run = k /\ outbox[n].msg.group = g}) <= 1)
  /\ [][ /\ ReachesTen =>
              /\ Len(runs') = Len(runs) + 1
              /\ runs'[Len(runs')].kind = "scheduled" /\ runs'[Len(runs')].at = now'
              /\ \A g \in Groups :
                   (EnabledAtTen(g) /\ OverdueIn(g, now')) =>
                     Cardinality(MsgsTo(runs'[Len(runs')], g)) = 1
         /\ ~ReachesTen =>
              {runs'[k] : k \in ScheduledRuns'} = {runs[k] : k \in ScheduledRuns} ]_vars

C19_Witness ==
  /\ up /\ MinuteOf(now) = CronMinute + 1 /\ pending = <<>>
  /\ EnabledAtTen("g1") /\ OverdueIn("g1", now)
  /\ Cardinality(ScheduledRuns) = 1
  /\ \A k \in ScheduledRuns :
       /\ runs[k].at = now - 1
       /\ Cardinality(MsgsTo(runs[k], "g1")) = 1
       /\ Cardinality({n \in DOMAIN outbox : outbox[n].run = k /\ outbox[n].msg.group = "g1"}) = 1

\* C20: a manual scan of a group sends exactly one message, to that group: the
\* nothing-to-report message when the group has no episode in a scanned stage, the
\* all-within-deadline message when it has some but lists none, the list otherwise.
C20_ManualAlwaysOne ==
  \A k \in ManualRuns :
    LET r == runs[k]
        mine == {n \in DOMAIN outbox : outbox[n].run = k}
        active == {i \in DOMAIN episodes :
                     episodes[i].status \in ScanStatuses /\ GroupOf(episodes[i]) = r.target}
    IN /\ Len(r.msgs) = 1 /\ r.msgs[1].group = r.target /\ r.msgs[1].kind = "manual"
       /\ Cardinality(mine) = 1 /\ \A n \in mine : outbox[n].msg = r.msgs[1]
       /\ r.msgs[1].note = "nothing" <=> active = {}
       /\ r.msgs[1].note = "within" <=> (active # {} /\ r.msgs[1].items = <<>>)
       /\ r.msgs[1].note = "list" <=>
            (r.msgs[1].items # <<>>
               /\ \A n \in DOMAIN r.msgs[1].items : r.msgs[1].items[n].ep \in active)

C20_Witness ==
  \E k1, k2 \in ManualRuns :
    /\ runs[k1].msgs[1].note = "nothing" /\ runs[k2].msgs[1].note = "within"
    /\ runs[k1].target # runs[k2].target
    /\ \E n \in DOMAIN outbox : outbox[n].run = k1 /\ outbox[n].sent = "failed"

\* An episode is within the reach of a run: every group for the job, the target
\* group for a manual scan.
InReach(k, i) == runs[k].kind = "manual" => GroupOf(episodes[i]) = runs[k].target
ListedIn(k, i) == \E it \in RunItems(k) : it.ep = i

\* C21: an episode in a scanned stage whose stage deadline is dated after today is
\* listed as in progress by a manual scan and not listed by the job; one whose
\* deadline is dated today or earlier is listed by both.
C21_InProgressOnlyManual ==
  \A k \in DOMAIN runs, i \in DOMAIN episodes :
    (Scanned(i) /\ InReach(k, i)) =>
      IF DdlDate(i) > DateOf(runs[k].at)
      THEN IF runs[k].kind = "manual"
           THEN {it.urgency : it \in {x \in RunItems(k) : x.ep = i}} = {"in_progress"}
           ELSE ~ListedIn(k, i)
      ELSE ListedIn(k, i)

\* C22: an episode whose current stage has no deadline is listed by no scan,
\* whoever is assigned and whatever the deadlines of its other stages are.
C22_NoDeadlineNotListed ==
  \A k \in DOMAIN runs, i \in DOMAIN episodes :
    DdlOfStage(episodes[i], episodes[i].status) = NoDdl => ~ListedIn(k, i)

C22_Witness ==
  \E k1 \in ManualRuns, k2 \in ScheduledRuns, i \in DOMAIN episodes :
    /\ episodes[i].status \in ScanStatuses
    /\ DdlOfStage(episodes[i], episodes[i].status) = NoDdl
    /\ episodes[i].ddl_trans # NoDdl /\ StageUser(episodes[i]) # None
    /\ runs[k1].target = GroupOf(episodes[i])
    /\ runs[k2].msgs # <<>>

\* C23: every scan lists an episode in any stage strictly between NotStarted and
\* Done, Supervising included, whose stage deadline is overdue by date, and never
\* lists a NotStarted or Done episode.
C23_EveryActiveStageScanned ==
  \A k \in DOMAIN runs, i \in DOMAIN episodes :
    InReach(k, i) =>
      /\ ( /\ episodes[i].status \in ActiveStages
           /\ \E x \in DdlOfStage(episodes[i], episodes[i].status) :
                DateOf(x) < DateOf(runs[k].at) ) => ListedIn(k, i)
      /\ episodes[i].status \in {NotStarted, Done} => ~ListedIn(k, i)

\* C24: a delivery of the job that fails uses up its own message only: the messages
\* composed for the other groups stay queued and the scheduler keeps running, so
\* their sends are still attempted.
C24_FailureIsolated ==
  [][ ( /\ Len(outbox') = Len(outbox) + 1
        /\ outbox'[Len(outbox')].msg.kind = "scheduled"
        /\ outbox'[Len(outbox')].sent = "failed" ) =>
        /\ pending # <<>> /\ pending' = Tail(pending)
        /\ up' /\ runs' = runs ]_vars

C24_Witness ==
  \E k \in ScheduledRuns, n1, n2 \in DOMAIN outbox :
    /\ Len(runs[k].msgs) = 2
    /\ n1 < n2 /\ outbox[n1].run = k /\ outbox[n2].run = k
    /\ outbox[n1].sent = "failed"
    /\ outbox[n1].msg.group # outbox[n2].msg.group

\* Ids of the user rows a step removes.
Removed == {u.id : u \in users} \ {u.id : u \in users'}

\* C25: deleting the user who is an episode's translator sets the translator slot to
\* unassigned and keeps the episode and its project; a finish command on that episode
\* in the Translating stage is then denied to everyone but the project leader and the
\* group administrators, and succeeds for those.
C25_DeletedTranslatorDetached ==
  [][ /\ Removed # {} =>
           /\ DOMAIN episodes' = DOMAIN episodes
           /\ project'.name = project.name /\ project'.group_id = project.group_id
           /\ \A i \in DOMAIN episodes :
                /\ episodes'[i].translator =
                     IF episodes[i].translator \in Removed THEN None
                     ELSE episodes[i].translator
                /\ episodes'[i].title = episodes[i].title
                /\ episodes'[i].status = episodes[i].status
                /\ episodes'[i].project = episodes[i].project
      /\ \A p \in Procs :
           (/\ h[p].pc = "idle" /\ h'[p].kind = "finish" /\ h'[p].ep # 0
            /\ h'[p].snap.status = Translating /\ h'[p].snap.translator = None)
           => h'[p].result =
                IF IsLeader(project, h'[p].actor.qq) \/ IsGroupAdmin(h'[p].actor)
                THEN "ok" ELSE "PermissionDenied"
    ]_vars

\* The translator r1 is gone, the former translator was denied and the leader advanced.
C25_Witness ==
  /\ ~\E u \in users : u.id = "r1"
  /\ project.leader = "r2"
  /\ \E p, q \in Procs :
       /\ h[p].kind = "finish" /\ h[p].snap.status = Translating
       /\ h[p].snap.translator = None /\ h[p].actor.qq = "u1"
       /\ h[p].actor.role = "member" /\ h[p].result = "PermissionDenied"
       /\ h[q].kind = "finish" /\ h[q].snap.status = Translating
       /\ h[q].snap.translator = None /\ h[q].actor.qq = "u2"
       /\ h[q].actor.role = "member" /\ h[q].result = "ok" /\ h[q].pc = "done"
       /\ episodes[h[q].ep].status = Proofing

\* ---- the web panel's store (CrudSpec)
ProjectIds == {q.id : q \in projects}
Ends(p, kind) == reqs[p].kind = kind /\ reqs[p].pc # "done" /\ reqs'[p].pc = "done"
StoreUnchanged == users' = users /\ projects' = projects /\ episodes' = episodes

\* C26: every stored episode belongs to a project that exists, whatever the project,
\* episode and member requests and however an add-episode interleaves with a
\* delete-project of its project.
C26_NoOrphanEpisode ==
  \A i \in DOMAIN episodes : episodes[i].project \in ProjectIds

\* An add-episode has loaded its project, and the project has been deleted since.
C26_Witness ==
  \E p \in Procs :
    /\ reqs[p].kind = "add_episode" /\ reqs[p].pc = "loaded"
    /\ reqs[p].loaded.id \notin ProjectIds
    /\ \E q \in Procs : q # p /\ reqs[q].pc = "done" /\ reqs[q].result = "success"

\* C27: a new episode's stage slots are the default assignees its project has at that
\* moment, and an update of the project's defaults changes no slot of an episode that
\* exists.
C27_DefaultsCopiedOnce ==
  [][ /\ \A i \in DOMAIN episodes' \ DOMAIN episodes :
           \E q \in projects :
             /\ q.id = episodes'[i].project
             /\ episodes'[i].translator = q.default_translator
             /\ episodes'[i].proofreader = q.default_proofreader
             /\ episodes'[i].typesetter = q.default_typesetter
             /\ episodes'[i].supervisor = q.default_supervisor
      /\ (\E p \in Procs : Ends(p, "update_project")) => episodes' = episodes
    ]_vars

\* The second half of C27 alone: an update of a project leaves every episode as it is.
C27_DefaultsNotLinked ==
  [][ (\E p \in Procs : Ends(p, "update_project")) => episodes' = episodes ]_vars

UniqueNames == \A a, b \in projects : a.name = b.name => a = b

\* C28: no two projects have the same name; a create-project goes past its test only
\* with a name no project has, a rejected create-project changes nothing, and a rename
\* to the name of another project is rejected and changes nothing.
C28_UniqueProjectNames ==
  /\ []UniqueNames
  /\ [][ \A p \in Procs :
           /\ (reqs[p].pc \in {"idle", "done"} /\ reqs'[p].kind = "create_project"
               /\ reqs'[p] # reqs[p])
              => IF reqs'[p].pc = "done"
                 THEN reqs'[p].result = "400" /\ StoreUnchanged
                 ELSE ~\E q \in projects : q.name = reqs'[p].name
           /\ (Ends(p, "create_project") /\ reqs'[p].result # "success")
              => StoreUnchanged
           /\ (/\ Ends(p, "update_project")
               /\ reqs[p].loaded.id \in ProjectIds
               /\ \E o \in projects : o.id # reqs[p].loaded.id /\ o.name = reqs[p].name)
              => reqs'[p].result = "500" /\ StoreUnchanged
       ]_vars

\* A create with a taken name was answered 400 and a rename to a taken name 500.
C28_Witness ==
  /\ \E p \in Procs : reqs[p].kind = "create_project" /\ reqs[p].result = "400"
  /\ \E p \in Procs : reqs[p].kind = "update_project" /\ reqs[p].result = "500"
  /\ Cardinality(projects) = 2

\* C29: no two episodes of one project have the same title.
C29_UniqueTitles ==
  \A i, j \in DOMAIN episodes :
    (i # j /\ episodes[i].project = episodes[j].project)
      => episodes[i].title # episodes[j].title

\* Two episodes of different projects share a title, and a further add-episode with
\* that title was refused although no project has ever been deleted.
C29_Witness ==
  /\ \E i, j \in DOMAIN episodes :
       episodes[i].project # episodes[j].project /\ episodes[i].title = episodes[j].title
  /\ ProjectIds = {"a0", "b0"}
  /\ \E p \in Procs : reqs[p].kind = "add_episode" /\ reqs[p].result = "500"

\* C30: there is at most one User row for each (qq_id, group_id), however membership
\* syncs and project creations that create the leader interleave.
C30_OneRowPerMember ==
  \A a, b \in users : (a.qq_id = b.qq_id /\ a.group_id = b.group_id) => a = b

\* The same member has a row in each of two groups, and one of two racing syncs lost.
C30_Witness ==
  /\ \E a, b \in users : a.qq_id = b.qq_id /\ a.group_id # b.group_id /\ a.id # b.id
  /\ \E p \in Procs : reqs[p].kind = "sync" /\ reqs[p].result = "500"

\* C31: a finish command sent from a group other than the one that owns the project
\* does not advance the episode, whether the sender is an administrator of that other
\* group or a member of it with the assignee's qq id, and the stage-change notification
\* goes to the group that owns the project.
C31_GroupScoped ==
  \A p \in Finishes :
    /\ h[p].actor.group # project.group_id => h[p].result # "ok"
    /\ h[p].msg # NoMsg => h[p].msg.group = project.group_id

\* The two halves of C31, each alone.
C31_ForeignSenderDenied ==
  \A p \in Finishes : h[p].actor.group # project.group_id => h[p].result # "ok"
C31_NotifiesOwningGroup ==
  \A p \in Finishes : h[p].msg # NoMsg => h[p].msg.group = project.group_id

\* The finish command has told the group that the episode is through every stage.
ReportedFinished(p) ==
  /\ h[p].kind = "finish" /\ h[p].result = "ok" /\ h[p].msg # NoMsg
  /\ h[p].msg.note \in {"leader_or_owner_publish", "admins_publish"}

\* Some component treats the episode as being in an active stage.
TreatedActive(e) ==
  \/ TaskListed(e, project)
  \/ e.status \in ScanStatuses
  \/ StatusMapGet(e.status) \notin {"not_started", "done"}

\* C32: an episode the finish command has reported as fully finished is Done for the
\* other components too (the edit path names its status Done, the settings view does
\* not list it as a task, the scans do not select it), and an episode that a component
\* treats as active is advanced when its stage assignee sends the finish command.
C32_TerminalAgreed ==
  /\ \A p \in Procs :
       ReportedFinished(p) =>
         /\ h[p].new.status = Done
         /\ StatusMapGet(h[p].new.status) = "done"
         /\ ~TaskListed(h[p].new, project)
         /\ h[p].new.status \notin ScanStatuses
  /\ \A p \in Finishes :
       (TreatedActive(h[p].snap) /\ ActsAsAssignee(p)) => h[p].result = "ok"

\* The two halves of C32, each alone.
C32_FinishedIsDoneEverywhere ==
  \A p \in Procs :
    ReportedFinished(p) =>
      StatusMapGet(h[p].new.status) = "done" /\ ~TaskListed(h[p].new, project)
C32_ActiveCanAdvance ==
  \A p \in Finishes :
    (TreatedActive(h[p].snap) /\ ActsAsAssignee(p)) => h[p].result = "ok"
\* What the components do agree on: the scans select no episode reported as finished.
C32_ScansSkipFinished ==
  \A p \in Procs : ReportedFinished(p) => h[p].new.status \notin ScanStatuses
====
